---------------------------- MODULE Spec2Model ----------------------------
(***************************************************************************)
(* A model of torch/distributed/elastic/rendezvous/c10d_rendezvous_backend *)
(* .py: the C10d rendezvous backend (a compare-and-set state cell kept in  *)
(* a shared key-value store) and the bootstrap of its TCP store.           *)
(*                                                                         *)
(* Bytes and strings are sequences of character codes (0..255); a str and  *)
(* the bytes of its UTF-8 encoding coincide on the ASCII values the        *)
(* backend writes, so both are the same sequence here.                     *)
(***************************************************************************)
EXTENDS Integers, Sequences, FiniteSets, TLC

(***************************************************************************)
(* Bounds of the model.                                                    *)
(***************************************************************************)
\* Number of backend objects (one per peer process) that may be constructed.
NumBackends == 2

\* Number of processes that run the store bootstrap concurrently.
NumPeers == 2

\* Longest of the short states the codec is driven with, in bytes.
MaxLen == 3

(***************************************************************************)
(* The codec: codecs.encode(state, "base64") and codecs.decode(.,"base64") *)
(***************************************************************************)
\* "canimadam", the bytes whose base64 digits spell the sentinel.
Canimadam == <<99, 97, 110, 105, 109, 97, 100, 97, 109>>

\* The caller's payloads the backends are driven with: the empty state and
\* a one-byte state, b"a".
Payloads == { <<>>, <<97>> }

\* _NULL_SENTINEL = "Y2FuaW1hZGFt"
_NULL_SENTINEL == <<89, 50, 70, 117, 97, 87, 49, 104, 90, 71, 70, 116>>

\* The base64 alphabet: digit value 0..63 to character code.
B64Char(i) ==
    IF i < 26 THEN 65 + i
    ELSE IF i < 52 THEN 97 + (i - 26)
    ELSE IF i < 62 THEN 48 + (i - 52)
    ELSE IF i = 62 THEN 43 ELSE 47

\* The inverse table: character code to digit value, 64 for a character
\* outside the alphabet (skipped by the non-strict decoder).
B64Val(c) ==
    IF c >= 65 /\ c <= 90 THEN c - 65
    ELSE IF c >= 97 /\ c <= 122 THEN c - 97 + 26
    ELSE IF c >= 48 /\ c <= 57 THEN c - 48 + 52
    ELSE IF c = 43 THEN 62
    ELSE IF c = 47 THEN 63 ELSE 64

\* binascii.b2a_base64 without the trailing newline: three bytes to four
\* digits, "=" (61) padding the last group.
RECURSIVE B2aGroups(_)
B2aGroups(s) ==
    IF Len(s) = 0 THEN <<>>
    ELSE IF Len(s) = 1 THEN
        << B64Char(s[1] \div 4), B64Char((s[1] % 4) * 16), 61, 61 >>
    ELSE IF Len(s) = 2 THEN
        << B64Char(s[1] \div 4),
           B64Char((s[1] % 4) * 16 + (s[2] \div 16)),
           B64Char((s[2] % 16) * 4), 61 >>
    ELSE
        << B64Char(s[1] \div 4),
           B64Char((s[1] % 4) * 16 + (s[2] \div 16)),
           B64Char((s[2] % 16) * 4 + (s[3] \div 64)),
           B64Char(s[3] % 64) >>
        \o B2aGroups(SubSeq(s, 4, Len(s)))

\* base64.encodebytes, which codecs.encode(state, "base64") calls: every
\* chunk of 57 bytes becomes one line of digits ended by a newline (10);
\* no bytes, no line.
RECURSIVE EncodeBytes(_)
EncodeBytes(s) ==
    IF Len(s) = 0 THEN <<>>
    ELSE IF Len(s) <= 57 THEN B2aGroups(s) \o <<10>>
    ELSE B2aGroups(SubSeq(s, 1, 57)) \o <<10>>
         \o EncodeBytes(SubSeq(s, 58, Len(s)))

\* An encoding without the newline that ends a line (base64.b64encode).
EncodeSingleLine(state) == B2aGroups(state)

\* An encoding that drops the "=" padding.
EncodeNoPadding(state) == SelectSeq(EncodeBytes(state), LAMBDA c : c # 61)

\* base64_state_str = codecs.encode(state, "base64").decode()
encode(state) == EncodeBytes(state)

\* binascii.a2b_base64 in its non-strict mode, which codecs.decode(.,
\* "base64") calls: characters outside the alphabet are skipped, a pad that
\* completes a quad ends the parse, and digits left over make the input
\* malformed (binascii.Error).  The result is [ok, data].
RECURSIVE A2bLoop(_, _, _, _, _, _)
A2bLoop(a, i, quad_pos, leftchar, pads, out) ==
    IF i > Len(a) THEN [ok |-> quad_pos = 0, data |-> out]
    ELSE IF a[i] = 61 THEN
        IF quad_pos >= 2 /\ quad_pos + pads + 1 >= 4
        THEN [ok |-> TRUE, data |-> out]
        ELSE A2bLoop(a, i + 1, quad_pos, leftchar,
                     IF quad_pos >= 2 THEN pads + 1 ELSE pads, out)
    ELSE IF B64Val(a[i]) >= 64 THEN
        A2bLoop(a, i + 1, quad_pos, leftchar, pads, out)
    ELSE IF quad_pos = 0 THEN
        A2bLoop(a, i + 1, 1, B64Val(a[i]), 0, out)
    ELSE IF quad_pos = 1 THEN
        A2bLoop(a, i + 1, 2, (B64Val(a[i]) % 16) * 16, 0,
                Append(out, (leftchar * 4 + (B64Val(a[i]) \div 16)) % 256))
    ELSE IF quad_pos = 2 THEN
        A2bLoop(a, i + 1, 3, (B64Val(a[i]) % 4) * 64, 0,
                Append(out, leftchar + (B64Val(a[i]) \div 4)))
    ELSE
        A2bLoop(a, i + 1, 0, 0, 0, Append(out, leftchar + B64Val(a[i])))

\* codecs.decode(base64_state, "base64")
DecodeBytes(a) == A2bLoop(a, 1, 0, 0, 0, <<>>)


(***************************************************************************)
(* The shared key-value store (torch.distributed.Store), the collaborator  *)
(* behind self._store.  A cell is one key's content.                       *)
(***************************************************************************)
\* A key nobody has written yet.
UnsetCell == [set |-> FALSE, val |-> <<>>]

\* The value a compare-and-set sees at a key: the store's "unset" default
\* (the empty string) while the key is absent.
CurrentValue(cell) == IF cell.set THEN cell.val ELSE <<>>

\* What a store call can raise: the two exception types _call_store catches.
StoreExcs == {"ValueError", "RuntimeError"}

\* Outcomes of one store call the model draws from.
StoreOutcomes == {"none"} \cup StoreExcs

\* store.get(key): the key's bytes; the read blocks while the key is absent
\* and ends in the store's timeout error.  A failed call changes nothing.
StoreGet(cell, exc) ==
    IF exc # "none"
    THEN [exc |-> exc, ret |-> <<>>, cell |-> cell, wrote |-> FALSE]
    ELSE IF ~cell.set
    THEN [exc |-> "RuntimeError", ret |-> <<>>, cell |-> cell, wrote |-> FALSE]
    ELSE [exc |-> "none", ret |-> cell.val, cell |-> cell, wrote |-> FALSE]

\* store.compare_set(key, expected, desired): atomically writes desired iff
\* the current value equals expected; returns the value the key then holds.
\* "wrote" records whether the write took place.
StoreCompareSet(cell, expected, desired, exc) ==
    IF exc # "none"
    THEN [exc |-> exc, ret |-> <<>>, cell |-> cell, wrote |-> FALSE]
    ELSE IF CurrentValue(cell) = expected
         THEN [exc |-> "none", ret |-> desired,
               cell |-> [set |-> TRUE, val |-> desired], wrote |-> TRUE]
         ELSE [exc |-> "none", ret |-> CurrentValue(cell), cell |-> cell,
               wrote |-> FALSE]

(***************************************************************************)
(* Tokens and results as the caller sees them.                             *)
(***************************************************************************)
\* token=None
NoneTok == [type |-> "None", val |-> <<>>, truthy |-> FALSE]

\* A bytes token; bytes are falsy when empty.
BytesTok(v) == [type |-> "bytes", val |-> v, truthy |-> Len(v) > 0]

\* A token of another type (an int, a str, ...), truthy or falsy.
OtherTok(t) == [type |-> "other", val |-> <<>>, truthy |-> t]

\* bytes.decode(): UTF-8; on the tokens of the model, the bytes below 128.
Utf8Ok(v) == \A i \in 1..Len(v) : v[i] < 128

\* A call's outcome: what it returned, or the exception it raised.
NoCall == [kind |-> "NoCall", state |-> <<>>, token |-> <<>>]
Constructed == [kind |-> "Constructed", state |-> <<>>, token |-> <<>>]
ReturnNone == [kind |-> "None", state |-> <<>>, token |-> <<>>]
ReturnState(state, token) == [kind |-> "State", state |-> state, token |-> token]
Raised(exc) == [kind |-> exc, state |-> <<>>, token |-> <<>>]

(***************************************************************************)
(* C10dRendezvousBackend                                                   *)
(***************************************************************************)
\* A _call_store that lets the store's exception through unmapped.
CallStoreUnmapped(r) == r

\* _call_store: the store call's result, a ValueError or RuntimeError mapped
\* to RendezvousConnectionError.
_call_store(r) ==
    IF r.exc \in {"ValueError", "RuntimeError"}
    THEN [r EXCEPT !.exc = "RendezvousConnectionError"]
    ELSE r

\* A _decode_state that returns the sentinel as the token of every state.
DecodeStaleToken(base64_state) ==
    IF base64_state = _NULL_SENTINEL THEN ReturnNone
    ELSE IF ~DecodeBytes(base64_state).ok THEN Raised("RendezvousStateError")
    ELSE ReturnState(DecodeBytes(base64_state).data, _NULL_SENTINEL)

\* A _decode_state that takes a value it cannot decode for "no state".
DecodeCorruptAsNone(base64_state) ==
    IF base64_state = _NULL_SENTINEL THEN ReturnNone
    ELSE IF ~DecodeBytes(base64_state).ok THEN ReturnNone
    ELSE ReturnState(DecodeBytes(base64_state).data, base64_state)

\* _decode_state
_decode_state(base64_state) ==
    IF base64_state = _NULL_SENTINEL THEN ReturnNone
    ELSE IF ~DecodeBytes(base64_state).ok THEN Raised("RendezvousStateError")
    ELSE ReturnState(DecodeBytes(base64_state).data, base64_state)

\* A key that leaves the run id out.
KeyOfPrefixOnly(run_id) == "torch.rendezvous."

\* self._key = "torch.rendezvous." + run_id
KeyOf(run_id) == "torch.rendezvous." \o run_id

\* The run ids the model draws from; the empty one is rejected.
RunIds == {"", "job-42"}

\* The run ids of the backends whose keys are compared: ids that differ by
\* a character, by length and by case.
KeyRunIds == {"job-42", "job-43", "job-4", "Job-42"}

\* The keys of the store.
Keys == { KeyOf(r) : r \in (RunIds \cup KeyRunIds) \ {""} }

\* The result of a method: what the caller gets, the cell afterwards, the
\* store operations the call issued and whether the store wrote.
Outcome(result, cell, ops, wrote) ==
    [result |-> result, cell |-> cell, ops |-> ops, wrote |-> wrote]

\* A constructor that does not seed the key.
InitNoSeed(cell, run_id, exc) ==
    IF run_id = "" THEN Outcome(Raised("ValueError"), cell, <<>>, FALSE)
    ELSE Outcome(Constructed, cell, <<>>, FALSE)

\* A constructor that seeds the key before it looks at the run id.
InitSeedThenCheck(cell, run_id, exc) ==
    LET r == _call_store(StoreCompareSet(cell, <<>>, _NULL_SENTINEL, exc))
    IN  IF run_id = ""
        THEN Outcome(Raised("ValueError"), r.cell, <<"compare_set">>, r.wrote)
        ELSE IF r.exc # "none"
        THEN Outcome(Raised(r.exc), r.cell, <<"compare_set">>, FALSE)
        ELSE Outcome(Constructed, r.cell, <<"compare_set">>, r.wrote)

\* __init__(store, run_id): the seed compare-and-set of the sentinel against
\* the store's unset default.
__init__(cell, run_id, exc) ==
    IF run_id = "" THEN Outcome(Raised("ValueError"), cell, <<>>, FALSE)
    ELSE LET r == _call_store(StoreCompareSet(cell, <<>>, _NULL_SENTINEL, exc))
         IN  IF r.exc # "none"
             THEN Outcome(Raised(r.exc), r.cell, <<"compare_set">>, FALSE)
             ELSE Outcome(Constructed, r.cell, <<"compare_set">>, r.wrote)

\* get_state()
get_state(cell, exc) ==
    LET r == _call_store(StoreGet(cell, exc))
    IN  IF r.exc # "none"
        THEN Outcome(Raised(r.exc), r.cell, <<"get">>, FALSE)
        ELSE Outcome(_decode_state(r.ret), r.cell, <<"get">>, FALSE)

\* A set_state that returns its own state whatever the store answered.
SetStateReturnsOwn(cell, state, token, exc) ==
    IF token.truthy /\ token.type # "bytes"
    THEN get_state(cell, exc)
    ELSE IF token.truthy /\ ~Utf8Ok(token.val)
    THEN Outcome(Raised("UnicodeDecodeError"), cell, <<>>, FALSE)
    ELSE LET r == _call_store(
                      StoreCompareSet(cell,
                                      IF token.truthy THEN token.val
                                      ELSE _NULL_SENTINEL,
                                      encode(state), exc))
         IN  IF r.exc # "none"
             THEN Outcome(Raised(r.exc), r.cell, <<"compare_set">>, FALSE)
             ELSE Outcome(_decode_state(encode(state)), r.cell,
                          <<"compare_set">>, r.wrote)

\* set_state(state, token)
set_state(cell, state, token, exc) ==
    LET base64_state_str == encode(state)
    IN  IF token.truthy /\ token.type # "bytes"
        THEN get_state(cell, exc)
        ELSE IF token.truthy /\ ~Utf8Ok(token.val)
        THEN Outcome(Raised("UnicodeDecodeError"), cell, <<>>, FALSE)
        ELSE LET expected == IF token.truthy THEN token.val
                             ELSE _NULL_SENTINEL
                 r == _call_store(
                          StoreCompareSet(cell, expected, base64_state_str, exc))
             IN  IF r.exc # "none"
                 THEN Outcome(Raised(r.exc), r.cell, <<"compare_set">>, FALSE)
                 ELSE Outcome(_decode_state(r.ret), r.cell, <<"compare_set">>, r.wrote)

(***************************************************************************)
(* The store bootstrap: create_backend and _create_tcp_store               *)
(***************************************************************************)
\* str.lower() on one character code.
Lower(c) == IF c >= 65 /\ c <= 90 THEN c + 32 ELSE c

\* Whitespace as str.strip() sees it (tab, newline, vertical tab, form
\* feed, carriage return, space).
IsSpace(c) == c \in {9, 10, 11, 12, 13, 32}

\* str.strip(): leading and trailing whitespace removed.
RECURSIVE Strip(_)
Strip(t) ==
    IF Len(t) = 0 THEN t
    ELSE IF IsSpace(t[1]) THEN Strip(Tail(t))
    ELSE IF IsSpace(t[Len(t)]) THEN Strip(SubSeq(t, 1, Len(t) - 1))
    ELSE t

\* "tcp"
TcpName == <<116, 99, 112>>

\* params.get("store_type", "tcp").strip().lower() != "tcp"
StoreTypeUnsupported(store_type) ==
    [i \in 1..Len(Strip(store_type)) |-> Lower(Strip(store_type)[i])] # TcpName

\* A read timeout test that lets a zero timeout through.
ReadTimeoutNegative(read_timeout) == read_timeout < 0

\* if read_timeout <= 0: raise ValueError(...)
ReadTimeoutInvalid(read_timeout) == read_timeout <= 0

\* The role a process takes: the explicit is_host when configured
\* ("True"/"False"), else the hostname heuristic's answer.
ResolveIsHost(cfg_is_host, matches) ==
    IF cfg_is_host # "None" THEN cfg_is_host = "True" ELSE matches

\* A failure handler that never falls back to the client role.
OnFailureAlwaysRaise(is_server, cfg_is_host) == "raise"

\* A failure handler that also falls back when is_host was configured.
OnFailureIgnoreExplicit(is_server, cfg_is_host) ==
    IF ~is_server THEN "raise" ELSE "continue"

\* The except clause of the loop: raise RendezvousConnectionError unless the
\* failed attempt was a server attempt with a heuristically inferred role.
OnAttemptFailure(is_server, cfg_is_host) ==
    IF ~is_server \/ cfg_is_host # "None" THEN "raise" ELSE "continue"

\* A loop that tries the client role first.
AttemptRolesClientFirst(is_host) == <<FALSE, is_host>>

\* for is_server in [is_host, False]
AttemptRoles(is_host) == <<is_host, FALSE>>

\* TCPStore(host, port, is_master=is_server, ...): whether the store object
\* is created.  A server needs the endpoint free, a client needs a server
\* listening on it; a transport fault fails either.
TcpStoreCreated(is_server, server, fault) ==
    /\ ~fault
    /\ IF is_server THEN server = 0 ELSE server # 0

(***************************************************************************)
(* The state: the store, the backends constructed on it and what each      *)
(* caller got back from its latest call.                                   *)
(***************************************************************************)
VARIABLES
    store,    \* the shared store: key -> cell
    status,   \* backend -> "absent" (not constructed), "ready" or "failed"
    key,      \* backend -> self._key ("" until constructed)
    runId,    \* history: backend -> the run_id its constructor was given
    result,   \* backend -> the outcome of the backend's latest call
    last,     \* the latest call of the system (a history record)
    setCalled,   \* history: key -> whether set_state was ever called on it
    lastWritten, \* history: key -> the state the latest set_state wrote
    bpc,      \* peer -> where its create_backend stands: "start", "attempt",
              \*   "connected", "ConnectionError" or "ValueError"
    given,    \* history: peer -> the store_type and read_timeout it passed
    params,   \* peer -> [cfg_is_host, is_host] once resolved
    loop,     \* peer -> the roles its loop has still to try
    attempts, \* history: peer -> the TCPStore(...) calls made, [is_server, ok]
    server,   \* the peer whose store listens on the endpoint, 0 for none
    faulted   \* history: whether a transport fault failed some attempt

backendVars ==
    <<store, status, key, runId, result, last, setCalled, lastWritten>>

bootVars == <<bpc, given, params, loop, attempts, server, faulted>>

vars == <<backendVars, bootVars>>

Peers == 1..NumPeers

Backends == 1..NumBackends

\* The tokens a caller passes besides None and the token it holds: the empty
\* bytes, bytes that are not UTF-8, and two values that are not bytes
\* (think 1 and 0).
ExtraTokens ==
    { BytesTok(<<>>), BytesTok(<<255>>), OtherTok(TRUE), OtherTok(FALSE) }

\* The tokens backend b's caller may pass to set_state.
TokenInputs(b) ==
    {NoneTok} \cup ExtraTokens
    \cup (IF result[b].kind = "State" THEN {BytesTok(result[b].token)} ELSE {})

BackendInit ==
    /\ store = [k \in Keys |-> UnsetCell]
    /\ status = [b \in Backends |-> "absent"]
    /\ key = [b \in Backends |-> ""]
    /\ runId = [b \in Backends |-> ""]
    /\ result = [b \in Backends |-> NoCall]
    /\ last = [op |-> "none", b |-> 0, key |-> "", state |-> <<>>,
               token |-> NoneTok, exc |-> "none",
               before |-> [k \in Keys |-> UnsetCell], ops |-> <<>>,
               wrote |-> FALSE]
    /\ setCalled = [k \in Keys |-> FALSE]
    /\ lastWritten = [k \in Keys |-> [set |-> FALSE, state |-> <<>>]]

\* C10dRendezvousBackend(store, run_id): the constructor, seed included.
Construct(b, run_id, exc) ==
    /\ status[b] = "absent"
    /\ LET k == KeyOf(run_id)
           cell == IF run_id = "" THEN UnsetCell ELSE store[k]
           o == __init__(cell, run_id, exc)
       IN  /\ store' = IF run_id = "" THEN store
                       ELSE [store EXCEPT ![k] = o.cell]
           /\ status' = [status EXCEPT ![b] =
                            IF o.result.kind = "Constructed" THEN "ready"
                            ELSE "failed"]
           /\ key' = [key EXCEPT ![b] =
                         IF o.result.kind = "Constructed" THEN k ELSE ""]
           /\ runId' = [runId EXCEPT ![b] = run_id]
           /\ result' = [result EXCEPT ![b] = o.result]
           /\ last' = [op |-> "init", b |-> b,
                       key |-> IF run_id = "" THEN "" ELSE k,
                       state |-> <<>>, token |-> NoneTok,
                       exc |-> IF run_id = "" THEN "none" ELSE exc,
                       before |-> store, ops |-> o.ops, wrote |-> o.wrote]
    /\ UNCHANGED <<setCalled, lastWritten, bootVars>>

\* backend.get_state()
GetState(b, exc) ==
    /\ status[b] = "ready"
    /\ LET o == get_state(store[key[b]], exc)
       IN  /\ store' = [store EXCEPT ![key[b]] = o.cell]
           /\ result' = [result EXCEPT ![b] = o.result]
           /\ last' = [op |-> "get_state", b |-> b, key |-> key[b],
                       state |-> <<>>, token |-> NoneTok, exc |-> exc,
                       before |-> store, ops |-> o.ops, wrote |-> o.wrote]
    /\ UNCHANGED <<status, key, runId, setCalled, lastWritten, bootVars>>

\* backend.set_state(state, token)
SetState(b, state, token, exc) ==
    /\ status[b] = "ready"
    /\ LET o == set_state(store[key[b]], state, token, exc)
       IN  /\ store' = [store EXCEPT ![key[b]] = o.cell]
           /\ result' = [result EXCEPT ![b] = o.result]
           /\ last' = [op |-> "set_state", b |-> b, key |-> key[b],
                       state |-> state, token |-> token,
                       exc |-> IF o.ops = <<>> THEN "none" ELSE exc,
                       before |-> store, ops |-> o.ops, wrote |-> o.wrote]
           /\ setCalled' = [setCalled EXCEPT ![key[b]] = TRUE]
           /\ lastWritten' =
                  IF o.wrote
                  THEN [lastWritten EXCEPT ![key[b]] =
                           [set |-> TRUE, state |-> state]]
                  ELSE lastWritten
    /\ UNCHANGED <<status, key, runId, bootVars>>

(***************************************************************************)
(* The bootstrap of each peer process.                                     *)
(***************************************************************************)
\* What callers pass as store_type: "tcp", " TCP" and "file".
StoreTypes == { TcpName, <<32, 84, 67, 80>>, <<102, 105, 108, 101>> }

\* What callers pass as read_timeout.
ReadTimeouts == {-1, 0, 1, 60}

\* is_host as configured: unset, or an explicit boolean.
IsHostConfigs == {"None", "True", "False"}

BootInit ==
    /\ bpc = [p \in Peers |-> "start"]
    /\ given = [p \in Peers |-> [store_type |-> <<>>, read_timeout |-> 0]]
    /\ params = [p \in Peers |-> [cfg_is_host |-> "None", is_host |-> FALSE]]
    /\ loop = [p \in Peers |-> <<>>]
    /\ attempts = [p \in Peers |-> <<>>]
    /\ server = 0
    /\ faulted = FALSE

\* create_backend(params) up to the loop of _create_tcp_store: the store
\* type test, the role, the read timeout test.
CreateBackend(p, store_type, read_timeout, cfg_is_host, matches) ==
    /\ bpc[p] = "start"
    /\ given' = [given EXCEPT ![p] =
           [store_type |-> store_type, read_timeout |-> read_timeout]]
    /\ IF StoreTypeUnsupported(store_type) \/ ReadTimeoutInvalid(read_timeout)
       THEN /\ bpc' = [bpc EXCEPT ![p] = "ValueError"]
            /\ UNCHANGED <<params, loop>>
       ELSE /\ bpc' = [bpc EXCEPT ![p] = "attempt"]
            /\ params' = [params EXCEPT ![p] =
                   [cfg_is_host |-> cfg_is_host,
                    is_host |-> ResolveIsHost(cfg_is_host, matches)]]
            /\ loop' = [loop EXCEPT ![p] =
                   AttemptRoles(ResolveIsHost(cfg_is_host, matches))]
    /\ UNCHANGED <<attempts, server, faulted, backendVars>>

\* One iteration of the loop: the TCPStore(...) call and, when it fails, the
\* except clause.
Attempt(p, fault) ==
    /\ bpc[p] = "attempt"
    /\ LET is_server == Head(loop[p])
           ok == TcpStoreCreated(is_server, server, fault)
       IN  /\ attempts' = [attempts EXCEPT ![p] =
                   Append(@, [is_server |-> is_server, ok |-> ok])]
           /\ faulted' = (faulted \/ fault)
           /\ server' = IF ok /\ is_server THEN p ELSE server
           /\ IF ok
              THEN /\ bpc' = [bpc EXCEPT ![p] = "connected"]
                   /\ loop' = [loop EXCEPT ![p] = <<>>]
              ELSE IF OnAttemptFailure(is_server, params[p].cfg_is_host) = "raise"
              THEN /\ bpc' = [bpc EXCEPT ![p] = "ConnectionError"]
                   /\ loop' = [loop EXCEPT ![p] = <<>>]
              ELSE /\ bpc' = bpc
                   /\ loop' = [loop EXCEPT ![p] = Tail(@)]
    /\ UNCHANGED <<given, params, backendVars>>

Init == BackendInit /\ BootInit

\* The backends on a store that is already connected.
Next ==
    \/ \E b \in Backends, r \in RunIds, e \in StoreOutcomes : Construct(b, r, e)
    \/ \E b \in Backends, e \in StoreOutcomes : GetState(b, e)
    \/ \E b \in Backends, s \in Payloads, e \in StoreOutcomes :
           \E t \in TokenInputs(b) : SetState(b, s, t, e)

Spec == Init /\ [][Next]_vars

\* The bootstrap of the store by the peers of one machine.
NextBoot ==
    \/ \E p \in Peers, st \in StoreTypes, rt \in ReadTimeouts,
          c \in IsHostConfigs, m \in BOOLEAN : CreateBackend(p, st, rt, c, m)
    \/ \E p \in Peers, f \in BOOLEAN : Attempt(p, f)

SpecBoot == Init /\ [][NextBoot]_vars

\* The bootstrap with every TCPStore(...) call returning or raising in the
\* end (it is given a timeout), so that a process in its loop goes on.
SpecBootFair ==
    SpecBoot /\ \A p \in Peers : WF_vars(\E f \in BOOLEAN : Attempt(p, f))

(***************************************************************************)
(* The codec seen through the backend: one key, set_state called once on  *)
(* it, states of many shapes, and a key that may already hold a value     *)
(* another writer of the store left there.                                 *)
(***************************************************************************)
\* The byte values the short states are made of.
ByteVals == {0, 97, 255}

\* The states set_state is given: every state of at most MaxLen bytes and
\* the state whose base64 digits spell the sentinel.
CodecInputs ==
    UNION { [1..n -> ByteVals] : n \in 0..MaxLen } \cup {Canimadam}

\* Stored values codecs.decode(., "base64") rejects: "Y", "YW" and "YW=".
MalformedValues == { <<89>>, <<89, 87>>, <<89, 87, 61>> }

\* What another writer may have left at the key: the malformed values and
\* "YQ==", the base64 of b"a" without the newline.
ForeignValues == MalformedValues \cup { <<89, 81, 61, 61>> }

\* The run id and the key of the backends here.
CodecRunId == "job-42"

CodecKey == KeyOf(CodecRunId)

InitCodec ==
    /\ BootInit
    /\ \E c \in {UnsetCell} \cup { [set |-> TRUE, val |-> v] : v \in ForeignValues } :
          /\ store = [k \in Keys |-> IF k = CodecKey THEN c ELSE UnsetCell]
          /\ last = [op |-> "none", b |-> 0, key |-> "", state |-> <<>>,
                     token |-> NoneTok, exc |-> "none",
                     before |-> store, ops |-> <<>>, wrote |-> FALSE]
    /\ status = [b \in Backends |-> "absent"]
    /\ key = [b \in Backends |-> ""]
    /\ runId = [b \in Backends |-> ""]
    /\ result = [b \in Backends |-> NoCall]
    /\ setCalled = [k \in Keys |-> FALSE]
    /\ lastWritten = [k \in Keys |-> [set |-> FALSE, state |-> <<>>]]

NextCodec ==
    \/ \E b \in Backends : Construct(b, CodecRunId, "none")
    \/ \E b \in Backends : GetState(b, "none")
    \/ \E b \in Backends, s \in CodecInputs :
           /\ status[b] = "ready"
           /\ ~setCalled[key[b]]
           /\ SetState(b, s, NoneTok, "none")

SpecCodec == InitCodec /\ [][NextCodec]_vars

(***************************************************************************)
(* Backends constructed on many run ids, and their reads.                  *)
(***************************************************************************)
NextKeys ==
    \/ \E b \in Backends, r \in KeyRunIds \cup {""} : Construct(b, r, "none")
    \/ \E b \in Backends : GetState(b, "none")

SpecKeys == Init /\ [][NextKeys]_vars

(***************************************************************************)
(* Properties of the backend, checked under Spec.                          *)
(***************************************************************************)
\* A key that holds the sentinel.
SentinelCell == [set |-> TRUE, val |-> _NULL_SENTINEL]

\* A key that holds encoded state x.
StateCell(x) == [set |-> TRUE, val |-> encode(x)]

\* The expected value the contract gives a token: the sentinel for an absent
\* token, the token's exact bytes for a bytes token.
ContractExpected(token) ==
    IF token.type = "None" THEN _NULL_SENTINEL ELSE token.val

\* The latest call was a set_state that reached its compare-and-set, which
\* the store answered.
LastSetStateCas ==
    /\ last.op = "set_state"
    /\ last.token.type \in {"None", "bytes"}
    /\ last.exc = "none"
    /\ last.ops = <<"compare_set">>

\* C1 (as claimed): two backends on one key call set_state one after the
\* other with the same token, a token that is the key's current value when
\* the first call starts (None while the key holds the sentinel) and that
\* the first call's state does not re-encode to.  Then the first call writes,
\* the second does not, the second returns the first's (state, token) and
\* the store holds the first's encoded state.
C1_OneWinnerPerToken ==
    [][ ( /\ LastSetStateCas
          /\ last'.op = "set_state" /\ last'.exc = "none"
          /\ last'.ops = <<"compare_set">>
          /\ last'.b # last.b /\ last'.key = last.key
          /\ last'.token = last.token
          /\ last.before[last.key].val = ContractExpected(last.token)
          /\ encode(last.state) # ContractExpected(last.token) )
        => ( /\ last.wrote
             /\ ~last'.wrote
             /\ result'[last'.b] = ReturnState(last.state, encode(last.state))
             /\ store'[last.key] = StateCell(last.state) ) ]_vars

\* C2 (as claimed): when a backend's latest call returned (s, t) and the key
\* still holds t, the backend's next set_state(s2, t) that the store answers
\* writes encode(s2) and returns (s2, encode(s2)); s may be empty.
C2_ReturnedTokenSucceeds ==
    [][ \A b \in Backends :
          ( /\ status[b] = "ready"
            /\ result[b].kind = "State"
            /\ store[key[b]].val = result[b].token
            /\ last'.op = "set_state" /\ last'.b = b
            /\ last'.token = BytesTok(result[b].token)
            /\ last'.exc = "none" )
          => ( /\ store'[key[b]] = StateCell(last'.state)
               /\ result'[b] = ReturnState(last'.state, encode(last'.state)) )
      ]_vars

\* C3 (as claimed): a set_state with an absent or a (UTF-8) bytes token that
\* the store answers performs at most one compare-and-set and writes the encoded
\* state iff the key's value equals the expected value (the sentinel for an
\* absent token, the token's exact bytes otherwise); when it does not write,
\* the store is unchanged and the call returns the current (state, token).
C3_WritesIffExpected ==
    ( /\ last.op = "set_state"
      /\ last.token.type \in {"None", "bytes"}
      /\ Utf8Ok(last.token.val)
      /\ last.exc = "none" )
    => ( /\ last.ops = <<"compare_set">>
         /\ IF last.before[last.key].val = ContractExpected(last.token)
            THEN /\ last.wrote
                 /\ store[last.key] = StateCell(last.state)
            ELSE /\ ~last.wrote
                 /\ store = last.before
                 /\ result[last.b] = _decode_state(last.before[last.key].val) )

\* C4 (as claimed): once a key has been seeded its value changes only through
\* a set_state that wrote, and the key is never deleted.
C4_OnlySetStateChangesKey ==
    [][ \A k \in Keys :
          store[k].set =>
              /\ store'[k].set
              /\ store'[k] # store[k] =>
                     (last'.op = "set_state" /\ last'.wrote) ]_vars

\* C5: while set_state has never been called on a key, the key of every
\* constructed backend holds exactly the sentinel, and every get_state the
\* store answers returns None: no backend's latest call yielded a state.
C5_FreshKeyHoldsSentinel ==
    \A k \in Keys :
        ~setCalled[k] =>
            /\ store[k] \in {UnsetCell, SentinelCell}
            /\ \A b \in Backends :
                   (status[b] = "ready" /\ key[b] = k) =>
                       /\ store[k] = SentinelCell
                       /\ result[b].kind \in
                              {"Constructed", "None",
                               "RendezvousConnectionError"}
            /\ (last.op = "get_state" /\ last.key = k /\ last.exc = "none")
                   => result[last.b] = ReturnNone

\* C5's case: two backends constructed on the key, no set_state yet, and a
\* get_state on each has returned None.
C5_Witness ==
    \E k \in Keys :
        /\ ~setCalled[k]
        /\ \A b \in {1, 2} :
               status[b] = "ready" /\ key[b] = k /\ result[b] = ReturnNone
        /\ last.op = "get_state" /\ last.exc = "none"

\* C6: a set_state(x, None) that the store answers on a key holding the
\* sentinel writes encode(x) and returns (x, encode(x)), for every payload x;
\* and the get_state that follows it on that key returns (x, encode(x)).
C6_FreshSetThenGet ==
    [][ /\ ( /\ last'.op = "set_state" /\ last'.token = NoneTok
             /\ last'.exc = "none"
             /\ store[last'.key] = SentinelCell )
           => ( /\ last'.wrote
                /\ store'[last'.key] = StateCell(last'.state)
                /\ result'[last'.b] =
                       ReturnState(last'.state, encode(last'.state)) )
        /\ ( /\ last.op = "set_state" /\ last.token = NoneTok
             /\ last.exc = "none"
             /\ last.before[last.key] = SentinelCell
             /\ last'.op = "get_state" /\ last'.key = last.key
             /\ last'.exc = "none" )
           => result'[last'.b] = ReturnState(last.state, encode(last.state))
      ]_vars

\* C6's case: the empty payload was written and the latest call, a
\* get_state, returned it with the token encode(<<>>).
C6_Witness ==
    /\ last.op = "get_state" /\ last.exc = "none"
    /\ lastWritten[last.key] = [set |-> TRUE, state |-> <<>>]
    /\ store[last.key] = StateCell(<<>>)
    /\ result[last.b] = ReturnState(<<>>, encode(<<>>))

\* C7 (as claimed): a get_state the store answers returns the state the
\* latest writing set_state on the key wrote, with the token of its encoding.
C7_LinearHistory ==
    ( /\ last.op = "get_state" /\ last.exc = "none"
      /\ lastWritten[last.key].set )
    => result[last.b] =
           ReturnState(lastWritten[last.key].state,
                       encode(lastWritten[last.key].state))

\* C10: a call whose store operation fails raises RendezvousConnectionError,
\* issues that one store operation only (no retry) and leaves the store as
\* it was; a constructor that fails so yields no backend.
C10_StoreFailureSurfaces ==
    last.exc # "none" =>
        /\ result[last.b] = Raised("RendezvousConnectionError")
        /\ Len(last.ops) = 1
        /\ ~last.wrote
        /\ store = last.before
        /\ last.op = "init" => (status[last.b] = "failed" /\ key[last.b] = "")

\* C10's case: a set_state whose compare-and-set failed in the store, on a
\* key that holds a state.
C10_Witness ==
    /\ last.op = "set_state" /\ last.exc = "RuntimeError"
    /\ last.ops = <<"compare_set">>
    /\ lastWritten[last.key].set
    /\ result[last.b] = Raised("RendezvousConnectionError")

(***************************************************************************)
(* Properties of the bootstrap, checked under SpecBoot.                    *)
(***************************************************************************)
\* The peer's store is connected and hosts the endpoint.
IsServer(p) ==
    /\ bpc[p] = "connected"
    /\ attempts[p][Len(attempts[p])].is_server

\* The peer's store is connected as a client.
IsClient(p) ==
    /\ bpc[p] = "connected"
    /\ ~attempts[p][Len(attempts[p])].is_server

\* C8: a peer whose first attempt, as server, failed.  With is_host unset
\* (the role inferred) it retries once, as client: either that retry is
\* pending, or it was made, is the second and last attempt, and left the
\* peer a connected client when it succeeded (a ConnectionError when not).
\* With is_host configured the failure raised ConnectionError and no other
\* attempt was made.
C8_FallbackOnlyWhenInferred ==
    \A p \in Peers :
        ( /\ Len(attempts[p]) >= 1
          /\ attempts[p][1] = [is_server |-> TRUE, ok |-> FALSE] )
        => IF params[p].cfg_is_host = "None"
           THEN \/ /\ bpc[p] = "attempt"
                   /\ Len(attempts[p]) = 1
                   /\ loop[p] = <<FALSE>>
                \/ /\ Len(attempts[p]) = 2
                   /\ ~attempts[p][2].is_server
                   /\ IF attempts[p][2].ok
                      THEN IsClient(p) /\ server # p
                      ELSE bpc[p] = "ConnectionError"
           ELSE /\ bpc[p] = "ConnectionError"
                /\ Len(attempts[p]) = 1

\* C8's case: a peer with is_host unset whose server attempt failed and
\* whose retry left it a connected client.
C8_Witness ==
    \E p \in Peers :
        /\ params[p].cfg_is_host = "None"
        /\ attempts[p] = << [is_server |-> TRUE, ok |-> FALSE],
                           [is_server |-> FALSE, ok |-> TRUE] >>
        /\ bpc[p] = "connected"
        /\ server \in Peers \ {p}

\* Every peer that has started runs with is_host unset and infers the host
\* role, and no transport fault has failed an attempt (an attempt fails only
\* because the endpoint is taken).
AllInferHost ==
    /\ ~faulted
    /\ \A p \in Peers :
           bpc[p] # "start" =>
               (params[p].cfg_is_host = "None" /\ params[p].is_host)

\* C9: when all peers infer the host role and only the endpoint's single
\* bind decides an attempt, no peer ends in an error, at most one hosts the
\* store, and once all are done exactly one is the server (its only attempt)
\* and every other is a client (after its failed server attempt).
C9_OneServerRestClients ==
    AllInferHost =>
        /\ \A p \in Peers : bpc[p] \notin {"ConnectionError", "ValueError"}
        /\ Cardinality({p \in Peers : IsServer(p)}) <= 1
        /\ (\A p \in Peers : bpc[p] = "connected") =>
               /\ Cardinality({p \in Peers : IsServer(p)}) = 1
               /\ IsServer(server)
               /\ \A p \in Peers \ {server} :
                      /\ IsClient(p)
                      /\ attempts[p] = << [is_server |-> TRUE, ok |-> FALSE],
                                         [is_server |-> FALSE, ok |-> TRUE] >>

\* C9's case: all peers inferred the host role and all are done.
C9_Witness ==
    /\ AllInferHost
    /\ \A p \in Peers : bpc[p] = "connected"
    /\ \E p \in Peers : IsClient(p)

\* The store types of the model that spell "tcp" once stripped and lowered.
SpellsTcp == { <<116, 99, 112>>, <<32, 84, 67, 80>> }

\* C11: a create_backend whose store_type does not spell "tcp" or whose
\* read_timeout is not positive ends in the configuration error (ValueError)
\* with no TCPStore(...) call made and no role left to try, so no fallback
\* to the client role follows; every other create_backend gets past the
\* configuration tests.
C11_ConfigErrorBeforeAttempt ==
    \A p \in Peers :
        bpc[p] # "start" =>
            IF \/ given[p].store_type \notin SpellsTcp
               \/ given[p].read_timeout <= 0
            THEN /\ bpc[p] = "ValueError"
                 /\ attempts[p] = <<>>
                 /\ loop[p] = <<>>
            ELSE bpc[p] # "ValueError"

\* One peer was refused for its store type, another for a zero read_timeout.
C11_Witness ==
    \E p, q \in Peers :
        /\ bpc[p] = "ValueError" /\ bpc[q] = "ValueError"
        /\ given[p].store_type = <<102, 105, 108, 101>>
        /\ given[p].read_timeout = 60
        /\ given[q].store_type = TcpName
        /\ given[q].read_timeout = 0
        /\ attempts[p] = <<>> /\ attempts[q] = <<>>

\* The loop of peer p is over: it holds a store or has raised the
\* connection error.
LoopOver(p) == bpc[p] \in {"connected", "ConnectionError"}

\* What the attempts of peer p so far look like under the claim.
AttemptsBounded(p) ==
    /\ Len(attempts[p]) <= 2
    /\ Cardinality({ i \in 1..Len(attempts[p]) : attempts[p][i].is_server }) <= 1
    /\ Len(attempts[p]) >= 1 =>
           attempts[p][1].is_server = params[p].is_host
    /\ Len(attempts[p]) = 2 =>
           /\ ~attempts[p][2].is_server
           /\ attempts[p][1].is_server
           /\ ~attempts[p][1].ok
           /\ params[p].cfg_is_host = "None"
    /\ \A i \in 1..Len(attempts[p]) :
           /\ attempts[p][i].ok => (i = Len(attempts[p]) /\ bpc[p] = "connected")
           /\ ( /\ ~attempts[p][i].ok
                /\ ~( /\ i = 1
                      /\ attempts[p][i].is_server
                      /\ params[p].cfg_is_host = "None" ) )
              => (i = Len(attempts[p]) /\ bpc[p] = "ConnectionError")
    /\ LoopOver(p) => Len(attempts[p]) >= 1
    /\ bpc[p] = "attempt" => Len(attempts[p]) + Len(loop[p]) = 2

\* C16: every bootstrap that enters the loop ends connected or with the
\* connection error, after at most two TCPStore(...) calls, at most one of
\* them as server; the first is in the resolved role, a second one is always
\* as client and follows only a failed server attempt whose role was
\* inferred; every other failed attempt raises the connection error.
C16_TerminatesInTwoAttempts ==
    /\ [](\A p \in Peers : AttemptsBounded(p))
    /\ \A p \in Peers : (bpc[p] = "attempt") ~> LoopOver(p)

\* One peer raised the connection error at its second attempt, another at
\* its only one, its role being configured.
C16_Witness ==
    \E p, q \in Peers :
        /\ bpc[p] = "ConnectionError" /\ Len(attempts[p]) = 2
        /\ bpc[q] = "ConnectionError" /\ Len(attempts[q]) = 1
        /\ params[q].cfg_is_host # "None"

(***************************************************************************)
(* Properties of the codec and of foreign values, checked under SpecCodec. *)
(***************************************************************************)
\* C12: a set_state that writes state x, the empty one included, returns
\* exactly (x, the value it stored): decoding the encoding of x gives x back
\* with the encoding as its token, never "no state" and never an error.
C12_DecodeEncodeRoundTrip ==
    ( /\ last.op = "set_state"
      /\ last.wrote )
    => result[last.b] = ReturnState(last.state, store[last.key].val)

\* The empty state was written and came back as (b"", b"").
C12_Witness ==
    /\ last.op = "set_state"
    /\ last.wrote
    /\ last.state = <<>>
    /\ result[last.b] = ReturnState(<<>>, <<>>)

C18_CorruptValueFails ==
    ( /\ last.op \in {"get_state", "set_state"}
      /\ last.before[last.key].val \in MalformedValues )
    => ( /\ result[last.b] = Raised("RendezvousStateError")
         /\ Len(last.ops) = 1
         /\ ~last.wrote
         /\ store = last.before )

\* A set_state failed on the malformed value "YW=" after another backend's
\* get_state had failed on it.
C18_Witness ==
    /\ last.op = "set_state"
    /\ last.before[CodecKey].val = <<89, 87, 61>>
    /\ store[CodecKey].val = <<89, 87, 61>>
    /\ \A b \in Backends : result[b] = Raised("RendezvousStateError")

(***************************************************************************)
(* Properties of the key, checked under SpecKeys.                          *)
(***************************************************************************)
\* C14 (as claimed): the key of a constructed backend is "rendezvous."
\* followed by its run id, and two constructed backends have the same key
\* exactly when their run ids are equal.
C14_KeyIsRendezvousRunId ==
    \A b1, b2 \in Backends :
        (status[b1] = "ready" /\ status[b2] = "ready") =>
            /\ key[b1] = "rendezvous." \o runId[b1]
            /\ (key[b1] = key[b2]) <=> (runId[b1] = runId[b2])

\* C14 (amended): the key of a constructed backend is "torch.rendezvous."
\* followed by its run id and nothing else; two constructed backends have
\* the same key, and their calls go to the same key of the store, exactly
\* when their run ids are equal.
C14_KeyIsPrefixedRunId ==
    /\ \A b1, b2 \in Backends :
        (status[b1] = "ready" /\ status[b2] = "ready") =>
            /\ key[b1] = "torch.rendezvous." \o runId[b1]
            /\ (key[b1] = key[b2]) <=> (runId[b1] = runId[b2])
    /\ (last.op = "get_state") => last.key = "torch.rendezvous." \o runId[last.b]

\* Two backends constructed on run ids that differ only by case, on
\* different keys, one of which has read its key.
C14_Witness ==
    \E b1, b2 \in Backends :
        /\ status[b1] = "ready" /\ status[b2] = "ready"
        /\ runId[b1] = "job-42" /\ runId[b2] = "Job-42"
        /\ key[b1] # key[b2]
        /\ last.op = "get_state" /\ last.b = b1

(***************************************************************************)
(* Further properties of the backend, checked under Spec.                  *)
(***************************************************************************)
\* C15 (as claimed): a set_state given a token that is not bytes, whatever
\* the token's value, issues no compare-and-set, leaves the store as it was
\* and, when the store answers, returns what get_state returns.
C15_NonBytesTokenShortcut ==
    ( /\ last.op = "set_state"
      /\ last.token.type = "other" )
    => ( /\ last.ops = <<"get">>
         /\ store = last.before
         /\ last.exc = "none" =>
                result[last.b] = _decode_state(last.before[last.key].val) )

\* C17: a get_state or set_state that returns (state, token) issued one
\* store operation, the token is the value the key holds once that
\* operation is done, the state is what that token decodes to, and the
\* token is not the sentinel.
C17_TokenIsStoredValue ==
    ( /\ last.op \in {"get_state", "set_state"}
      /\ result[last.b].kind = "State" )
    => ( /\ Len(last.ops) = 1
         /\ result[last.b].token = store[last.key].val
         /\ DecodeBytes(result[last.b].token).ok
         /\ result[last.b].state = DecodeBytes(result[last.b].token).data
         /\ result[last.b].token # _NULL_SENTINEL )

\* A set_state lost its compare-and-set and returned the state another
\* backend had written, with the stored value as its token.
C17_Witness ==
    /\ last.op = "set_state"
    /\ last.ops = <<"compare_set">>
    /\ ~last.wrote
    /\ result[last.b].kind = "State"
    /\ result[last.b].state # last.state
    /\ result[last.b].token = store[last.key].val

\* C19: a constructor given the empty run id raises the configuration error
\* (ValueError) with no store operation issued: no seed compare-and-set,
\* the store as it was, and no backend to call.
C19_EmptyRunIdFailsBeforeStore ==
    ( /\ last.op = "init"
      /\ runId[last.b] = "" )
    => ( /\ result[last.b] = Raised("ValueError")
         /\ last.ops = <<>>
         /\ store = last.before
         /\ status[last.b] = "failed"
         /\ key[last.b] = "" )

\* A constructor was refused for its empty run id on a store where another
\* backend had written a state.
C19_Witness ==
    /\ last.op = "init"
    /\ runId[last.b] = ""
    /\ result[last.b] = Raised("ValueError")
    /\ \E k \in Keys : lastWritten[k].set /\ store[k].set

=============================================================================
